---- MODULE Spec2Model ----
(***************************************************************************)
(* A model of the AWS IP ranges directory: IpRangesService (the cache, its *)
(* refresh and its queries) and IpRangesController (the NotLoaded and      *)
(* NotFound guards).                                                       *)
(*                                                                         *)
(* JavaScript strings are modelled as sequences of UTF-16 code units, so   *)
(* that toUpperCase, split, parseInt, padStart and sort are computed the   *)
(* way the runtime computes them.  32-bit words are sequences of 32 bits,  *)
(* most significant bit first.                                             *)
(***************************************************************************)
EXTENDS Integers, Sequences, FiniteSets, TLC

VARIABLES
    ipRangesData,        \* the cached response body, or Null
    serviceIpRangesMap,  \* insertion-ordered Map: a sequence of ServiceIpRanges
    lastUpdated,         \* <<>> for null, <<t>> for the Date of the last assignment
    pending,             \* number of httpService.get calls not yet settled
    phase,               \* "constructed", "initializing" or "running"
    lastSettled,         \* how the last settled httpService.get ended
    repeated,            \* whether it delivered the dataset already cached
    reply                \* what the last query returned to its caller

vars == <<ipRangesData, serviceIpRangesMap, lastUpdated, pending, phase,
          lastSettled, repeated, reply>>

cache == <<ipRangesData, serviceIpRangesMap, lastUpdated>>

settled == <<lastSettled, repeated>>

-----------------------------------------------------------------------------
(* Bounds of the model. *)

MaxV4 == 2         \* longest `prefixes` array a fetched document carries
MaxV6 == 1         \* longest `ipv6_prefixes` array a fetched document carries
MaxPending == 2    \* most fetches in flight at once
MaxTime == 2       \* latest reading of the clock

-----------------------------------------------------------------------------
(* String.prototype and global functions of the runtime, on code units. *)

\* String.prototype.toUpperCase, on the ASCII range.
toUpperCase(s) ==
    [i \in 1..Len(s) |-> IF s[i] \in 97..122 THEN s[i] - 32 ELSE s[i]]

\* Position of the first occurrence of sep in s at or after i, 0 if none.
RECURSIVE IndexOf(_, _, _)
IndexOf(s, sep, i) ==
    IF i + Len(sep) - 1 > Len(s) THEN 0
    ELSE IF SubSeq(s, i, i + Len(sep) - 1) = sep THEN i
    ELSE IndexOf(s, sep, i + 1)

\* String.prototype.includes.
includes(s, sep) == IndexOf(s, sep, 1) # 0

\* String.prototype.split with a non-empty separator.
RECURSIVE split(_, _)
split(s, sep) ==
    LET k == IndexOf(s, sep, 1)
    IN  IF k = 0 THEN <<s>>
        ELSE <<SubSeq(s, 1, k - 1)>> \o split(SubSeq(s, k + Len(sep), Len(s)), sep)

\* Array.prototype.join.
RECURSIVE join(_, _)
join(parts, sep) ==
    IF parts = <<>> THEN <<>>
    ELSE IF Len(parts) = 1 THEN parts[1]
    ELSE parts[1] \o sep \o join(Tail(parts), sep)

\* String.prototype.padStart with a one-unit filler.
padStart(s, n, ch) ==
    IF Len(s) >= n THEN s ELSE [i \in 1..(n - Len(s)) |-> ch] \o s

\* String.prototype.substring(0, n) for a number n; NaN and negatives act as 0.
substring0(s, n) ==
    LET m == IF n.nan \/ n.val < 0 THEN 0
             ELSE IF n.val > Len(s) THEN Len(s) ELSE n.val
    IN  SubSeq(s, 1, m)

\* Numbers the model needs: NaN, or an integer.
NaN == [nan |-> TRUE, val |-> 0]
Num(v) == [nan |-> FALSE, val |-> v]

IsWhiteSpace(c) == c \in {9, 10, 11, 12, 13, 32}

DigitValue(c) ==
    IF c \in 48..57 THEN c - 48
    ELSE IF c \in 97..122 THEN c - 87
    ELSE IF c \in 65..90 THEN c - 55
    ELSE 99

RECURSIVE TrimStart(_)
TrimStart(s) ==
    IF s # <<>> /\ IsWhiteSpace(s[1]) THEN TrimStart(Tail(s)) ELSE s

RECURSIVE ParseDigits(_, _, _, _)
ParseDigits(s, radix, acc, seen) ==
    IF s # <<>> /\ DigitValue(s[1]) < radix
    THEN ParseDigits(Tail(s), radix, acc * radix + DigitValue(s[1]), TRUE)
    ELSE IF seen THEN Num(acc) ELSE NaN

\* parseInt(s, radix) for radix 10 and 16: leading white space, a sign, an
\* optional 0x for radix 16, then the longest run of digits; NaN if none.
parseInt(s, radix) ==
    LET t == TrimStart(s)
        neg == t # <<>> /\ t[1] = 45
        u == IF t # <<>> /\ t[1] \in {43, 45} THEN Tail(t) ELSE t
        v == IF radix = 16 /\ Len(u) >= 2 /\ u[1] = 48 /\ u[2] \in {88, 120}
             THEN SubSeq(u, 3, Len(u)) ELSE u
        r == ParseDigits(v, radix, 0, FALSE)
    IN  IF r.nan THEN NaN ELSE IF neg THEN Num(0 - r.val) ELSE r

\* Number.prototype.toString(2) of a non-negative integer.
RECURSIVE BinaryDigits(_)
BinaryDigits(v) ==
    IF v < 2 THEN <<48 + v>> ELSE BinaryDigits(v \div 2) \o <<48 + (v % 2)>>

\* Number.prototype.toString(2): "NaN", or the digits behind an optional sign.
toString2(n) ==
    IF n.nan THEN <<78, 97, 78>>
    ELSE IF n.val < 0 THEN <<45>> \o BinaryDigits(0 - n.val)
    ELSE BinaryDigits(n.val)

\* Code-unit order, the order of Array.prototype.sort without a comparator.
RECURSIVE StrLess(_, _)
StrLess(a, b) ==
    IF b = <<>> THEN FALSE
    ELSE IF a = <<>> THEN TRUE
    ELSE IF a[1] # b[1] THEN a[1] < b[1]
    ELSE StrLess(Tail(a), Tail(b))

\* Array.from(set).sort(): the strings of a set in code-unit order.
RECURSIVE sort(_)
sort(S) ==
    IF S = {} THEN <<>>
    ELSE LET m == CHOOSE x \in S : \A y \in S \ {x} : StrLess(x, y)
         IN  <<m>> \o sort(S \ {m})

-----------------------------------------------------------------------------
(* 32-bit words: the operands of <<, |, &, ~ and >>> 0. *)

WordBits == 1..32

Zero32 == [i \in WordBits |-> 0]

\* The low 32 bits of a non-negative integer below 2^31.
BitsOfNat(v) ==
    [i \in WordBits |-> IF i = 1 THEN 0 ELSE (v \div (2 ^ (32 - i))) % 2]

Not32(w) == [i \in WordBits |-> 1 - w[i]]
Or32(a, b) == [i \in WordBits |-> IF a[i] = 1 \/ b[i] = 1 THEN 1 ELSE 0]
And32(a, b) == [i \in WordBits |-> IF a[i] = 1 /\ b[i] = 1 THEN 1 ELSE 0]
Shl32(w, k) == [i \in WordBits |-> IF i + k <= 32 THEN w[i + k] ELSE 0]

\* ToInt32 of a number: NaN gives 0, a negative integer its two's complement.
ToInt32(n) ==
    IF n.nan THEN Zero32
    ELSE IF n.val >= 0 THEN BitsOfNat(n.val)
    ELSE Not32(BitsOfNat(0 - n.val - 1))

-----------------------------------------------------------------------------
(* Address arithmetic of IpRangesService. *)

\* parts[i] of an array of strings parsed with parseInt(p, 10); a missing
\* element is undefined, which the bit operators read as 0.
OctetWord(parts, i) ==
    IF i <= Len(parts) THEN ToInt32(parseInt(parts[i], 10)) ELSE Zero32

\* ipv4ToNumber: ((p0 << 24) | (p1 << 16) | (p2 << 8) | p3) >>> 0.
ipv4ToNumber(ip) ==
    LET parts == split(ip, <<46>>)
    IN  Or32(Or32(Or32(Shl32(OctetWord(parts, 1), 24),
                       Shl32(OctetWord(parts, 2), 16)),
                  Shl32(OctetWord(parts, 3), 8)),
             OctetWord(parts, 4))

\* A mask that rounds the prefix length down to whole octets.
ipv4MaskWholeOctets(n) ==
    IF n.nan THEN Not32(Zero32)
    ELSE [i \in WordBits |-> IF i <= 8 * (n.val \div 8) THEN 1 ELSE 0]

\* ~(2 ** (32 - n) - 1) as a 32-bit word.  With k = 32 - n: from k = 54
\* the double 2 ** k - 1 rounds to 2 ** k, whose low 32 bits are 0, so the
\* mask is all ones; k in 33..53 leaves the low 32 bits all set, mask 0;
\* k in 0..32 sets the low k bits; k in -53..-1 gives a number in (-1, 0),
\* which ToInt32 truncates to 0, mask all ones; from k = -54 down
\* 2 ** k - 1 rounds to -1, mask 0.
ipv4Mask(n) ==
    IF n.nan \/ 32 - n.val >= 54 THEN Not32(Zero32)
    ELSE IF 32 - n.val >= 33 THEN Zero32
    ELSE IF 32 - n.val >= 0 THEN [i \in WordBits |-> IF i <= n.val THEN 1 ELSE 0]
    ELSE IF 32 - n.val >= -53 THEN Not32(Zero32)
    ELSE Zero32

\* const [range, bits] = cidr.split('/'): bits is undefined without a '/',
\* and parseInt(undefined) is NaN.
cidrRange(cidr) == split(cidr, <<47>>)[1]
cidrBits(cidr) ==
    LET parts == split(cidr, <<47>>)
    IN  IF Len(parts) >= 2 THEN parseInt(parts[2], 10) ELSE NaN

isIpv4InCidr(ip, cidr) ==
    LET mask == ipv4Mask(cidrBits(cidr))
    IN  And32(ipv4ToNumber(ip), mask) = And32(ipv4ToNumber(cidrRange(cidr)), mask)

\* The groups left and right of the first '::' (parts[0] and parts[1]); an
\* empty side gives no group.
ipv6Side(ip, k) ==
    LET parts == split(ip, <<58, 58>>)
    IN  IF parts[k] # <<>> THEN split(parts[k], <<58>>) ELSE <<>>

\* Array(missing) throws a RangeError when missing is negative.
expandIpv6Throws(ip) ==
    /\ includes(ip, <<58, 58>>)
    /\ 8 - Len(ipv6Side(ip, 1)) - Len(ipv6Side(ip, 2)) < 0

padGroups(groups) == [i \in 1..Len(groups) |-> padStart(groups[i], 4, 48)]

\* expandIpv6, where it does not throw.
expandIpv6(ip) ==
    IF includes(ip, <<58, 58>>)
    THEN LET left == ipv6Side(ip, 1)
             right == ipv6Side(ip, 2)
             missing == 8 - Len(left) - Len(right)
             middle == [i \in 1..missing |-> <<48, 48, 48, 48>>]
         IN  join(padGroups(left \o middle \o right), <<58>>)
    ELSE join(padGroups(split(ip, <<58>>)), <<58>>)

ipv6ToBinary(ip) ==
    LET groups == split(ip, <<58>>)
    IN  join([i \in 1..Len(groups) |->
                 padStart(toString2(parseInt(groups[i], 16)), 16, 48)], <<>>)

isIpv6InCidrThrows(ip, cidr) ==
    expandIpv6Throws(ip) \/ expandIpv6Throws(cidrRange(cidr))

\* isIpv6InCidr, where it does not throw.
isIpv6InCidr(ip, cidr) ==
    LET prefixBits == cidrBits(cidr)
        ipBinary == ipv6ToBinary(expandIpv6(ip))
        rangeBinary == ipv6ToBinary(expandIpv6(cidrRange(cidr)))
    IN  substring0(ipBinary, prefixBits) = substring0(rangeBinary, prefixBits)

-----------------------------------------------------------------------------
(* The upstream document and the documents a fetch can deliver. *)

\* Strings of the inputs, as code units.
EC2 == <<69, 67, 50>>                                       \* "EC2"
ec2 == <<101, 99, 50>>                                      \* "ec2"
S3 == <<83, 51>>                                            \* "S3"
RDS == <<82, 68, 83>>                                       \* "RDS"
Proto == <<95, 95, 112, 114, 111, 116, 111, 95, 95>>        \* "__proto__"
Svc10 == <<49, 48>>                                         \* "10"
Svc9 == <<57>>                                              \* "9"
UsEast1 == <<117, 115, 45, 101, 97, 115, 116, 45, 49>>      \* "us-east-1"
UsEast1Upper == <<85, 83, 45, 69, 65, 83, 84, 45, 49>>      \* "US-EAST-1"
UsWest2 == <<117, 115, 45, 119, 101, 115, 116, 45, 50>>     \* "us-west-2"
Cidr_1_2_3_0_24 == <<49, 46, 50, 46, 51, 46, 48, 47, 50, 52>>            \* "1.2.3.0/24"
Cidr_1_2_4_0_24 == <<49, 46, 50, 46, 52, 46, 48, 47, 50, 52>>            \* "1.2.4.0/24"
Cidr_1_2_4_128_25 == <<49, 46, 50, 46, 52, 46, 49, 50, 56, 47, 50, 53>>  \* "1.2.4.128/25"
Cidr_2600_1f00_24 == <<50, 54, 48, 48, 58, 49, 102, 48, 48, 58, 58, 47, 50, 52>>
                                                            \* "2600:1f00::/24"
Cidr_2600_1f18_4000_34 ==
    <<50, 54, 48, 48, 58, 49, 102, 49, 56, 58, 52, 48, 48, 48, 58, 58, 47, 51, 52>>
                                                            \* "2600:1f18:4000::/34"
Ip_1_2_3_5 == <<49, 46, 50, 46, 51, 46, 53>>                \* "1.2.3.5"
Ip_1_2_4_200 == <<49, 46, 50, 46, 52, 46, 50, 48, 48>>      \* "1.2.4.200"
Ip_9_9_9_9 == <<57, 46, 57, 46, 57, 46, 57>>                \* "9.9.9.9"
Ip_2600_1f18_4abc_1 ==
    <<50, 54, 48, 48, 58, 49, 102, 49, 56, 58, 52, 97, 98, 99, 58, 58, 49>>
                                                            \* "2600:1f18:4abc::1"
Ip_1_2_3 == <<49, 46, 50, 46, 51>>                          \* "1.2.3"
Ip_1_2_3_256 == <<49, 46, 50, 46, 51, 46, 50, 53, 54>>      \* "1.2.3.256"
Ip_NineGroups ==
    <<50, 54, 48, 48, 58, 49, 102, 49, 56, 58, 52, 97, 98, 99, 58, 48, 58, 48,
      58, 48, 58, 48, 58, 48, 58, 49>>       \* "2600:1f18:4abc:0:0:0:0:0:1"
Token1 == <<116, 49>>                                       \* "t1"
Token2 == <<116, 50>>                                       \* "t2"
Html == <<60, 104, 116, 109, 108, 62>>                      \* "<html>"

\* An IPPrefix / IPv6Prefix entry; `prefix` is ip_prefix or ipv6_prefix.
Prefix(cidr, region, service) ==
    [prefix |-> cidr, region |-> region, service |-> service,
     network_border_group |-> region]

\* Entries a `prefixes` array is drawn from: the two records of the spec's
\* scenario, a service spelled in lower case inside another block, the same
\* block under a second service with the region in upper case, an entry
\* whose region is empty, an entry whose ip_prefix "1.2.3.5" has no prefix
\* length, and three entries whose service names are special as property
\* keys of an object: "__proto__" and the array indices "10" and "9".
IPPrefixPool ==
    { Prefix(Cidr_1_2_3_0_24, UsEast1, EC2),
      Prefix(Cidr_1_2_4_0_24, UsWest2, EC2),
      Prefix(Cidr_1_2_4_128_25, UsWest2, ec2),
      Prefix(Cidr_1_2_3_0_24, UsEast1Upper, S3),
      Prefix(Cidr_1_2_4_0_24, <<>>, ec2),
      Prefix(Ip_1_2_3_5, UsEast1, EC2),
      Prefix(Cidr_1_2_3_0_24, UsEast1, Proto),
      Prefix(Cidr_1_2_4_0_24, UsEast1, Svc10),
      Prefix(Cidr_1_2_4_128_25, UsEast1, Svc9) }

\* Entries an `ipv6_prefixes` array is drawn from.
IPv6PrefixPool ==
    { Prefix(Cidr_2600_1f00_24, UsEast1, EC2),
      Prefix(Cidr_2600_1f18_4000_34, UsWest2, S3) }

SeqsUpTo(S, n) == UNION { [1..k -> S] : k \in 0..n }

\* response.data.  A JSON object is "object"; a body that is no JSON stays
\* a string; the JSON text null is null.  has_prefixes and has_ipv6 tell
\* whether the object has the property at all.
Null ==
    [kind |-> "null", text |-> <<>>, syncToken |-> <<>>,
     has_prefixes |-> FALSE, prefixes |-> <<>>,
     has_ipv6 |-> FALSE, ipv6_prefixes |-> <<>>]

Text(t) == [Null EXCEPT !.kind = "string", !.text = t]

Object(token, hasV4, v4, hasV6, v6) ==
    [kind |-> "object", text |-> <<>>, syncToken |-> token,
     has_prefixes |-> hasV4, prefixes |-> v4,
     has_ipv6 |-> hasV6, ipv6_prefixes |-> v6]

SyncTokens == {Token1, Token2}

\* AWSIpRangesResponse documents over two pools of entries: `prefixes`
\* present, `ipv6_prefixes` non-empty or left out.
DatasetsOver(tokens, pool4, pool6) ==
    { Object(tok, TRUE, v4, TRUE, v6) :
        tok \in tokens, v4 \in SeqsUpTo(pool4, MaxV4),
        v6 \in SeqsUpTo(pool6, MaxV6) \ {<<>>} }
    \cup
    { Object(tok, TRUE, v4, FALSE, <<>>) :
        tok \in tokens, v4 \in SeqsUpTo(pool4, MaxV4) }

\* The documents the queries are checked on.
Datasets == DatasetsOver({Token1}, IPPrefixPool, IPv6PrefixPool)

\* The documents a refresh fetches: the two records of the spec's scenario
\* and one IPv6 entry, under either token.
FetchedDatasets ==
    DatasetsOver(SyncTokens,
                 { Prefix(Cidr_1_2_3_0_24, UsEast1, EC2),
                   Prefix(Cidr_1_2_4_0_24, UsWest2, EC2) },
                 { Prefix(Cidr_2600_1f00_24, UsEast1, EC2) })

\* Bodies that are no dataset: JSON null, an empty body, a body that is
\* not JSON, and an object without the prefix lists.
Unparsable ==
    { Null, Text(<<>>), Text(Html), Object(Token2, FALSE, <<>>, FALSE, <<>>) }

Bodies == FetchedDatasets \cup Unparsable

\* Truthiness of the cached value, as `if (!this.ipRangesData)` reads it.
Truthy(data) ==
    \/ data.kind = "object"
    \/ data.kind = "string" /\ data.text # <<>>

\* Whether data.prefixes / data.ipv6_prefixes is an array (else undefined).
HasPrefixes(data) == data.kind = "object" /\ data.has_prefixes
HasIpv6(data) == data.kind = "object" /\ data.has_ipv6

\* this.ipRangesData?.syncToken || ''
syncTokenOf(data) == IF data.kind = "object" THEN data.syncToken ELSE <<>>

-----------------------------------------------------------------------------
(* groupByService *)

\* Position of the key in an insertion-ordered Map kept as a sequence.
RECURSIVE KeyIndex(_, _, _)
KeyIndex(m, key, i) ==
    IF i > Len(m) THEN 0
    ELSE IF m[i].service = key THEN i
    ELSE KeyIndex(m, key, i + 1)

\* Set.prototype.add on an insertion-ordered Set kept as a sequence.
SetAdd(set, x) ==
    IF \E i \in 1..Len(set) : set[i] = x THEN set ELSE Append(set, x)

\* One pass of a grouping loop: serviceMap.set on a new key, then
\* .ipv4.add or .ipv6.add.
RECURSIVE GroupInto(_, _, _)
GroupInto(serviceMap, prefixes, family) ==
    IF prefixes = <<>> THEN serviceMap
    ELSE LET p == Head(prefixes)
             m == IF KeyIndex(serviceMap, p.service, 1) = 0
                  THEN Append(serviceMap,
                              [service |-> p.service, ipv4 |-> <<>>, ipv6 |-> <<>>])
                  ELSE serviceMap
             k == KeyIndex(m, p.service, 1)
             m2 == IF family = "ipv4"
                   THEN [m EXCEPT ![k].ipv4 = SetAdd(@, p.prefix)]
                   ELSE [m EXCEPT ![k].ipv6 = SetAdd(@, p.prefix)]
         IN  GroupInto(m2, Tail(prefixes), family)

\* A ServiceIpRanges value.
ServiceIpRanges(service, ipv4, ipv6) ==
    [service |-> service, ipv4_prefixes |-> ipv4, ipv6_prefixes |-> ipv6,
     count |-> [ipv4 |-> Len(ipv4), ipv6 |-> Len(ipv6)]]

\* `for (const prefix of this.ipRangesData.prefixes)` throws a TypeError
\* when prefixes is undefined; it is reached when the cached value is truthy.
groupByServiceThrows(data) == Truthy(data) /\ ~HasPrefixes(data)

\* serviceIpRangesMap after groupByService on a value with prefixes.
groupByService(data) ==
    LET v4 == GroupInto(<<>>, data.prefixes, "ipv4")
        serviceMap == IF HasIpv6(data)
                      THEN GroupInto(v4, data.ipv6_prefixes, "ipv6")
                      ELSE v4
    IN  [i \in 1..Len(serviceMap) |->
            ServiceIpRanges(serviceMap[i].service, serviceMap[i].ipv4,
                            serviceMap[i].ipv6)]

-----------------------------------------------------------------------------
(* fetchIpRanges: the cache as [data, map, lastUpdated]. *)

Cache(data, map, updated) == [data |-> data, map |-> map, lastUpdated |-> updated]

\* A refresh whose groupByService does not clear serviceIpRangesMap before
\* it sets the new entries: entries of services that are gone stay.
onResolvedWithoutClear(c, body, now) ==
    LET new == groupByService(body)
        kept == [i \in 1..Len(c.map) |->
                    IF KeyIndex(new, c.map[i].service, 1) # 0
                    THEN new[KeyIndex(new, c.map[i].service, 1)]
                    ELSE c.map[i]]
        isNew(e) == KeyIndex(c.map, e.service, 1) = 0
    IN  Cache(body,
              IF ~Truthy(body) \/ groupByServiceThrows(body) THEN c.map
              ELSE kept \o SelectSeq(new, isNew),
              <<now>>)

\* Lines 56-60 once the request has resolved with `body` at time `now`:
\* both assignments, then groupByService, which returns early on a falsy
\* value and keeps the old map when it throws before clear().
onResolved(c, body, now) ==
    Cache(body,
          IF ~Truthy(body) \/ groupByServiceThrows(body) THEN c.map
          ELSE groupByService(body),
          <<now>>)

\* A catch block that drops the cache when the request fails.
onRejectedClears(c) == Cache(Null, <<>>, c.lastUpdated)

\* The catch block: the error is logged and nothing is assigned.
onRejected(c) == c

\* Whether the try block throws once the request has resolved with `body`:
\* in groupByService, or in the log line after it, which reads
\* ipRangesData.syncToken and ipRangesData.prefixes.length.
tryBlockThrows(body) == ~HasPrefixes(body)

\* A fetchIpRanges whose catch block throws the error on.
fetchIpRangesRethrows(thrown) == thrown

\* Whether the promise of fetchIpRanges is rejected when its try block has
\* thrown: the catch block takes every error and only logs it.
fetchIpRangesRejects(thrown) == FALSE

-----------------------------------------------------------------------------
(* Queries of IpRangesService.  A call returns Ok(value), returns null *)
(* (Failure("null")) or throws (Failure("TypeError"), ...).            *)

Ok(body) == [status |-> "ok", body |-> body]
Failure(status) == [status |-> status, body |-> <<>>]

\* Two outcomes of the same query are the same outcome.
SameReply(a, b) ==
    /\ a.status = b.status
    /\ a.status = "ok" => a.body = b.body

RECURSIVE DecimalDigits(_)
DecimalDigits(v) ==
    IF v < 10 THEN <<48 + v>> ELSE DecimalDigits(v \div 10) \o <<48 + (v % 10)>>

\* this.lastUpdated?.toISOString() || '': the text of the time stamp, which
\* the model writes as the clock reading in decimal.
lastUpdatedText(updated) ==
    IF updated = <<>> THEN <<>> ELSE DecimalDigits(updated[1])

isDataLoaded(c) == c.data.kind # "null"

getServices(c) ==
    Ok([services |-> sort({ c.map[i].service : i \in 1..Len(c.map) }),
        syncToken |-> syncTokenOf(c.data),
        lastUpdated |-> lastUpdatedText(c.lastUpdated)])

RegionsOf(prefixes) == { prefixes[i].region : i \in 1..Len(prefixes) }

getRegions(c) ==
    IF Truthy(c.data) /\ ~HasPrefixes(c.data) THEN Failure("TypeError")
    ELSE LET regionSet ==
                 IF ~Truthy(c.data) THEN {}
                 ELSE RegionsOf(c.data.prefixes) \cup
                      (IF HasIpv6(c.data) THEN RegionsOf(c.data.ipv6_prefixes)
                       ELSE {})
         IN  Ok([regions |-> sort(regionSet),
                 syncToken |-> syncTokenOf(c.data),
                 lastUpdated |-> lastUpdatedText(c.lastUpdated)])

\* The condition of both filter loops of filterByServiceAndRegion.
matchesServiceAndRegion(p, service, upperRegion) ==
    /\ toUpperCase(p.service) = service
    /\ toUpperCase(p.region) = upperRegion

\* One filter loop: the prefix of every matching entry, pushed in order.
RECURSIVE FilterLoop(_, _, _)
FilterLoop(prefixes, service, upperRegion) ==
    IF prefixes = <<>> THEN <<>>
    ELSE (IF matchesServiceAndRegion(Head(prefixes), service, upperRegion)
          THEN <<Head(prefixes).prefix>> ELSE <<>>)
         \o FilterLoop(Tail(prefixes), service, upperRegion)

filterByServiceAndRegion(data, service, region) ==
    IF ~Truthy(data) THEN Failure("null")
    ELSE IF ~HasPrefixes(data) THEN Failure("TypeError")
    ELSE LET upperRegion == toUpperCase(region)
             ipv4Prefixes == FilterLoop(data.prefixes, service, upperRegion)
             ipv6Prefixes == IF HasIpv6(data)
                             THEN FilterLoop(data.ipv6_prefixes, service, upperRegion)
                             ELSE <<>>
         IN  IF ipv4Prefixes = <<>> /\ ipv6Prefixes = <<>> THEN Failure("null")
             ELSE Ok(ServiceIpRanges(service, ipv4Prefixes, ipv6Prefixes))

\* An optional `region?: string` argument: <<>> when left out, <<r>> when
\* given.  `if (region && ...)` takes the empty string for no region.
NoRegion == <<>>
RegionGiven(region) == region # <<>> /\ region[1] # <<>>

\* The loop of getServiceIpRanges over the Map: the first key that matches.
RECURSIVE FirstMatchingKey(_, _, _)
FirstMatchingKey(m, upperService, i) ==
    IF i > Len(m) THEN 0
    ELSE IF toUpperCase(m[i].service) = upperService THEN i
    ELSE FirstMatchingKey(m, upperService, i + 1)

getServiceIpRanges(c, service, region) ==
    LET upperService == toUpperCase(service)
    IN  IF RegionGiven(region) /\ Truthy(c.data)
        THEN filterByServiceAndRegion(c.data, upperService, region[1])
        ELSE LET k == FirstMatchingKey(c.map, upperService, 1)
             IN  IF k = 0 THEN Failure("null") ELSE Ok(c.map[k])

\* `const { service: _, ...rest } = ranges`: the value without `service`.
\* The model keeps the property key it is assigned to beside it.
restOf(serviceName, ranges) ==
    [key |-> serviceName, ipv4_prefixes |-> ranges.ipv4_prefixes,
     ipv6_prefixes |-> ranges.ipv6_prefixes, count |-> ranges.count]

\* Whether a property key is an array index: the canonical decimal text of
\* an integer from 0 to 2^32 - 2.
IsArrayIndex(key) ==
    /\ key # <<>>
    /\ \A i \in 1..Len(key) : key[i] \in 48..57
    /\ Len(key) > 1 => key[1] # 48
    /\ \/ Len(key) < 10
       \/ /\ Len(key) = 10
          /\ ~StrLess(<<52, 50, 57, 52, 57, 54, 55, 50, 57, 52>>, key)

\* Numeric order of two array indices.
IndexLess(a, b) ==
    \/ Len(a) < Len(b)
    \/ Len(a) = Len(b) /\ StrLess(a, b)

\* Where a new own property goes in the order Object.keys and
\* JSON.stringify list the properties of an ordinary object: array indices
\* first, in ascending numeric order, then the other keys in the order
\* they were created.
RECURSIVE OwnKeyPosition(_, _, _)
OwnKeyPosition(services, key, i) ==
    IF i > Len(services) THEN i
    ELSE IF /\ IsArrayIndex(key)
            /\ \/ ~IsArrayIndex(services[i].key)
               \/ IndexLess(key, services[i].key)
    THEN i
    ELSE OwnKeyPosition(services, key, i + 1)

\* `services[serviceName] = rest` on the object literal `{}`, kept as the
\* sequence of its own properties in Object.keys order.  The key
\* "__proto__" is the accessor of Object.prototype: the assignment sets the
\* prototype of `services` and creates no own property.  An existing key
\* keeps its place and takes the new value.
assignService(services, serviceName, ranges) ==
    LET rest == restOf(serviceName, ranges)
        k == OwnKeyPosition(services, serviceName, 1)
    IN  IF serviceName = Proto THEN services
        ELSE IF \E i \in 1..Len(services) : services[i].key = serviceName
        THEN [i \in 1..Len(services) |->
                 IF services[i].key = serviceName THEN rest ELSE services[i]]
        ELSE SubSeq(services, 1, k - 1) \o <<rest>>
             \o SubSeq(services, k, Len(services))

\* The filtered value getAllServiceIpRanges computes for one key of the Map.
filteredFor(data, serviceName, region) ==
    filterByServiceAndRegion(data, toUpperCase(serviceName), region)

\* Whether the filtered value of a key is put into `services`.
keepFiltered(filtered) ==
    /\ filtered.status = "ok"
    /\ filtered.body.count.ipv4 > 0 \/ filtered.body.count.ipv6 > 0

\* `services` after the loop over the keys of the Map, with a region.
RECURSIVE FilteredServices(_, _, _)
FilteredServices(data, m, region) ==
    IF m = <<>> THEN <<>>
    ELSE LET services == FilteredServices(data, SubSeq(m, 1, Len(m) - 1), region)
             serviceName == m[Len(m)].service
             filtered == filteredFor(data, serviceName, region)
         IN  IF keepFiltered(filtered)
             THEN assignService(services, serviceName, filtered.body)
             ELSE services

\* `services` after the loop over the entries of the Map, without a region.
RECURSIVE AllServices(_)
AllServices(m) ==
    IF m = <<>> THEN <<>>
    ELSE assignService(AllServices(SubSeq(m, 1, Len(m) - 1)),
                       m[Len(m)].service, m[Len(m)])

getAllServiceIpRanges(c, region) ==
    IF RegionGiven(region) /\ Truthy(c.data) /\ ~HasPrefixes(c.data)
       /\ c.map # <<>>
    THEN Failure("TypeError")
    ELSE Ok([syncToken |-> syncTokenOf(c.data),
             lastUpdated |-> lastUpdatedText(c.lastUpdated),
             services |->
                 IF RegionGiven(region) /\ Truthy(c.data)
                 THEN FilteredServices(c.data, c.map, region[1])
                 ELSE AllServices(c.map)])

\* An IpSearchMatch.
Match(p) ==
    [service |-> p.service, region |-> p.region, prefix |-> p.prefix,
     network_border_group |-> p.network_border_group]

RECURSIVE SearchLoop(_, _, _)
SearchLoop(prefixes, ip, isIPv6) ==
    IF prefixes = <<>> THEN <<>>
    ELSE (IF (IF isIPv6 THEN isIpv6InCidr(ip, Head(prefixes).prefix)
              ELSE isIpv4InCidr(ip, Head(prefixes).prefix))
          THEN <<Match(Head(prefixes))>> ELSE <<>>)
         \o SearchLoop(Tail(prefixes), ip, isIPv6)

SearchResult(ip, matches) ==
    Ok([ip |-> ip, found |-> Len(matches) > 0, matches |-> matches])

searchByIp(c, ip) ==
    IF ~Truthy(c.data) THEN SearchResult(ip, <<>>)
    ELSE IF includes(ip, <<58>>)
    THEN IF ~HasIpv6(c.data) THEN SearchResult(ip, <<>>)
         ELSE IF \E i \in 1..Len(c.data.ipv6_prefixes) :
                     isIpv6InCidrThrows(ip, c.data.ipv6_prefixes[i].prefix)
         THEN Failure("RangeError")
         ELSE SearchResult(ip, SearchLoop(c.data.ipv6_prefixes, ip, TRUE))
    ELSE IF ~HasPrefixes(c.data) THEN Failure("TypeError")
         ELSE SearchResult(ip, SearchLoop(c.data.prefixes, ip, FALSE))

-----------------------------------------------------------------------------
(* IpRangesController: ensureDataLoaded (503) and the 404 of a null result. *)

ensureDataLoaded(c, result) ==
    IF ~isDataLoaded(c) THEN Failure("NotLoaded") ELSE result

controllerGetServices(c) == ensureDataLoaded(c, getServices(c))

controllerGetRegions(c) == ensureDataLoaded(c, getRegions(c))

controllerGetAllIpRanges(c, region) ==
    ensureDataLoaded(c, getAllServiceIpRanges(c, region))

controllerGetServiceIpRanges(c, service, region) ==
    LET result == getServiceIpRanges(c, service, region)
    IN  ensureDataLoaded(c, IF result.status = "null" THEN Failure("NotFound")
                            ELSE result)

-----------------------------------------------------------------------------
(* The state machine. *)

TheCache == Cache(ipRangesData, serviceIpRangesMap, lastUpdated)

\* Arguments the queries are called with.
QueryServices == {ec2, S3, RDS}
QueryRegions == {NoRegion, <<UsEast1>>, <<UsWest2>>}
\* Address literals, and texts that are none: three octets, an octet above
\* 255, nine groups.
ValidIps == {Ip_1_2_3_5, Ip_1_2_4_200, Ip_9_9_9_9, Ip_2600_1f18_4abc_1}
MalformedIps == {Ip_1_2_3, Ip_1_2_3_256, Ip_NineGroups}
QueryIps == ValidIps \cup MalformedIps

NoReply == [op |-> "none", result |-> Failure("none")]

Init ==
    /\ ipRangesData = Null
    /\ serviceIpRangesMap = <<>>
    /\ lastUpdated = <<>>
    /\ pending = 0
    /\ phase = "constructed"
    /\ lastSettled = "none"
    /\ repeated = FALSE
    /\ reply = NoReply

\* A query handler runs to completion and hands its result to the caller
\* before the event loop runs the next callback.
EventLoopFree == reply = NoReply /\ phase # "crashed"

\* fetchIpRanges up to its await: the request is issued, unconditionally.
IssueFetch ==
    /\ EventLoopFree
    /\ pending' = pending + 1

\* onModuleInit: called once; it awaits fetchIpRanges, and the scheduler
\* mounts the cron job only after every onModuleInit has returned.
OnModuleInit ==
    /\ phase = "constructed"
    /\ phase' = "initializing"
    /\ IssueFetch
    /\ UNCHANGED <<cache, settled, reply>>

\* handleCron: the 30-minute trigger of a running application.
HandleCron ==
    /\ phase = "running"
    /\ pending < MaxPending
    /\ IssueFetch
    /\ UNCHANGED <<cache, phase, settled, reply>>

\* What both continuations of the awaited request share.  onModuleInit and
\* handleCron await fetchIpRanges and handle nothing: an error it threw on
\* would fail the bootstrap or be an unhandled rejection ("crashed").
Settle(how, thrown, again) ==
    /\ EventLoopFree
    /\ pending > 0
    /\ pending' = pending - 1
    /\ phase' = IF fetchIpRangesRejects(thrown) THEN "crashed"
                ELSE IF phase = "initializing" THEN "running" ELSE phase
    /\ lastSettled' = how
    /\ repeated' = again
    /\ UNCHANGED reply

SetCache(c) ==
    /\ ipRangesData' = c.data
    /\ serviceIpRangesMap' = c.map
    /\ lastUpdated' = c.lastUpdated

SetCacheTo(c) ==
    /\ ipRangesData = c.data
    /\ serviceIpRangesMap = c.map
    /\ lastUpdated = c.lastUpdated

\* Time stamps new Date() can give: wall-clock time, which can be set back.
Clock == 1..MaxTime

\* The request resolves with a response body.
FetchResolved ==
    \E body \in Bodies, now \in Clock :
        /\ ipRangesData' = body
        /\ Settle(IF body \in Unparsable
                  THEN "resolved-unparsable" ELSE "resolved-dataset",
                  tryBlockThrows(body),
                  body \in FetchedDatasets /\ body = ipRangesData)
        /\ SetCache(onResolved(TheCache, body, now))

\* The request rejects: a transport error or the 30 s timeout.
FetchRejected ==
    /\ Settle("rejected", TRUE, FALSE)
    /\ SetCache(onRejected(TheCache))

\* A handler that also stamps the cache with the time of the read.
AnswerStamping(op, result) ==
    /\ EventLoopFree
    /\ reply' = [op |-> op, result |-> result]
    /\ lastUpdated' = <<MaxTime>>
    /\ UNCHANGED <<ipRangesData, serviceIpRangesMap, pending, phase, settled>>

Answer(op, result) ==
    /\ EventLoopFree
    /\ reply' = [op |-> op, result |-> result]
    /\ UNCHANGED <<cache, pending, phase, settled>>

GetServices == Answer("getServices", controllerGetServices(TheCache))

GetRegions == Answer("getRegions", controllerGetRegions(TheCache))

GetAllIpRanges ==
    \E region \in QueryRegions :
        Answer("getAllIpRanges", controllerGetAllIpRanges(TheCache, region))

GetServiceIpRanges ==
    \E service \in QueryServices, region \in QueryRegions :
        Answer("getServiceIpRanges",
               controllerGetServiceIpRanges(TheCache, service, region))

SearchByIp ==
    \E ip \in QueryIps : Answer("searchByIp", searchByIp(TheCache, ip))

\* The caller has the result.
Respond ==
    /\ reply # NoReply
    /\ reply' = NoReply
    /\ UNCHANGED <<cache, pending, phase, settled>>

Next ==
    \/ OnModuleInit
    \/ HandleCron
    \/ FetchResolved
    \/ FetchRejected
    \/ GetServices
    \/ GetRegions
    \/ GetAllIpRanges
    \/ GetServiceIpRanges
    \/ SearchByIp
    \/ Respond

Spec == Init /\ [][Next]_vars

\* The refresh cycle on its own, without callers.
RefreshNext ==
    \/ OnModuleInit
    \/ HandleCron
    \/ FetchResolved
    \/ FetchRejected

\* The request settles: the HttpModule is registered with a timeout of
\* 30 s, after which a request still pending rejects.
FetchSettles == FetchRejected \/ FetchResolved

LiveSpec == Init /\ [][RefreshNext]_vars /\ WF_vars(FetchSettles)

-----------------------------------------------------------------------------
(* The queries on their own: the application runs, no request is in       *)
(* flight, and the cache is what the startup refresh left on a dataset,   *)
(* or what a second response with an unparsable body made of that.        *)

EmptyCache == Cache(Null, <<>>, <<>>)

QueryInit ==
    /\ \E body \in Datasets :
          \/ /\ SetCacheTo(onResolved(EmptyCache, body, 1))
             /\ lastSettled = "resolved-dataset"
          \/ \E bad \in Unparsable :
                /\ SetCacheTo(onResolved(onResolved(EmptyCache, body, 1), bad, 1))
                /\ lastSettled = "resolved-unparsable"
    /\ repeated = FALSE
    /\ pending = 0
    /\ phase = "running"
    /\ reply = NoReply

QueryNext ==
    \/ GetServices
    \/ GetRegions
    \/ GetAllIpRanges
    \/ GetServiceIpRanges
    \/ SearchByIp
    \/ Respond

QuerySpec == QueryInit /\ [][QueryNext]_vars

-----------------------------------------------------------------------------
(* Properties. *)

Elems(seq) == { seq[i] : i \in 1..Len(seq) }

\* Arguments the properties range over.
ServiceArgs == {EC2, ec2, S3, RDS}
GivenRegions == {<<UsEast1>>, <<UsEast1Upper>>, <<UsWest2>>, <<RDS>>}
RegionArgs == {NoRegion} \cup GivenRegions

\* Every query answers in cache c as it answers in cache d.
SameAnswers(c, d) ==
    /\ SameReply(controllerGetServices(c), controllerGetServices(d))
    /\ SameReply(controllerGetRegions(c), controllerGetRegions(d))
    /\ \A region \in RegionArgs :
           SameReply(controllerGetAllIpRanges(c, region),
                     controllerGetAllIpRanges(d, region))
    /\ \A service \in ServiceArgs, region \in RegionArgs :
           SameReply(controllerGetServiceIpRanges(c, service, region),
                     controllerGetServiceIpRanges(d, service, region))
    /\ \A ip \in QueryIps : SameReply(searchByIp(c, ip), searchByIp(d, ip))

\* C1: a refresh whose fetch fails (transport error or timeout) leaves the
\* cached dataset, the service index, syncToken and lastUpdated as they
\* were, so every query answers exactly as it did before.
C1_FailedFetchKeepsSnapshot ==
    [][FetchRejected =>
          /\ cache' = cache
          /\ syncTokenOf(ipRangesData') = syncTokenOf(ipRangesData)
          /\ SameAnswers(TheCache', TheCache)]_vars

\* A fetch has failed on a cache that holds a dataset with services, and a
\* search has then found its match.
C1_Witness ==
    /\ lastSettled = "rejected"
    /\ HasPrefixes(ipRangesData)
    /\ serviceIpRangesMap # <<>>
    /\ reply.op = "searchByIp"
    /\ reply.result.status = "ok"
    /\ reply.result.body.found

\* C2: a fetch that returns an unparsable document (no structured document,
\* or one without the prefix lists) leaves the cached dataset, the service
\* index, syncToken, lastUpdated and the loaded flag as they were.
C2_UnparsableBodyKeepsSnapshot ==
    [][FetchResolved /\ lastSettled' = "resolved-unparsable" =>
          /\ cache' = cache
          /\ isDataLoaded(TheCache') = isDataLoaded(TheCache)]_vars

\* The (service, CIDR) pairs of one family in the service index and in the
\* cached dataset.
IndexPairs(map, family) ==
    UNION { { <<map[i].service, x>> :
                x \in Elems(IF family = "ipv4" THEN map[i].ipv4_prefixes
                            ELSE map[i].ipv6_prefixes) } :
            i \in 1..Len(map) }

DatasetPairs(data, family) ==
    LET prefixes == IF family = "ipv4"
                    THEN (IF HasPrefixes(data) THEN data.prefixes ELSE <<>>)
                    ELSE (IF HasIpv6(data) THEN data.ipv6_prefixes ELSE <<>>)
    IN  { <<prefixes[i].service, prefixes[i].prefix>> : i \in 1..Len(prefixes) }

\* C3: in every state the service index and the cached dataset are two
\* views of the same refresh: per family they hold the same (service, CIDR)
\* pairs.
C3_IndexAndDatasetAgree ==
    \A family \in {"ipv4", "ipv6"} :
        IndexPairs(serviceIpRangesMap, family) = DatasetPairs(ipRangesData, family)

\* C4: at most one refresh is in flight at any time.
C4_AtMostOneInFlight == pending <= 1

\* C5: isLoaded turns true only by a refresh that succeeds end to end, and
\* once true it stays true.
C5_LoadedOnlyBySuccessfulRefresh ==
    [][isDataLoaded(TheCache') # isDataLoaded(TheCache) =>
          /\ ~isDataLoaded(TheCache)
          /\ FetchResolved
          /\ lastSettled' = "resolved-dataset"]_vars

\* C6: while no refresh has completed, each of the five queries answers
\* NotLoaded; after a successful refresh of a dataset with no records they
\* answer with empty lists and never NotLoaded.
C6_NotLoadedUntilFirstRefresh ==
    /\ cache = <<Null, <<>>, <<>>>> =>
           /\ controllerGetServices(TheCache).status = "NotLoaded"
           /\ controllerGetRegions(TheCache).status = "NotLoaded"
           /\ \A region \in RegionArgs :
                  controllerGetAllIpRanges(TheCache, region).status = "NotLoaded"
           /\ \A service \in ServiceArgs, region \in RegionArgs :
                  controllerGetServiceIpRanges(TheCache, service, region).status
                      = "NotLoaded"
           /\ \A ip \in QueryIps : searchByIp(TheCache, ip).status = "NotLoaded"
    /\ (/\ lastSettled = "resolved-dataset"
        /\ ipRangesData.prefixes = <<>>
        /\ ipRangesData.ipv6_prefixes = <<>>) =>
           /\ controllerGetServices(TheCache).status = "ok"
           /\ controllerGetServices(TheCache).body.services = <<>>
           /\ controllerGetRegions(TheCache).status = "ok"
           /\ controllerGetRegions(TheCache).body.regions = <<>>
           /\ \A region \in RegionArgs :
                  /\ controllerGetAllIpRanges(TheCache, region).status = "ok"
                  /\ controllerGetAllIpRanges(TheCache, region).body.services = <<>>
           /\ \A service \in ServiceArgs, region \in RegionArgs :
                  controllerGetServiceIpRanges(TheCache, service, region).status
                      # "NotLoaded"
           /\ \A ip \in QueryIps :
                  /\ searchByIp(TheCache, ip).status = "ok"
                  /\ searchByIp(TheCache, ip).body.matches = <<>>

\* The cache holds the dataset of the last response, indexed.
Published == lastSettled = "resolved-dataset"

\* The entries of one array of the cached dataset that belong to a service,
\* whatever its spelling, and to a region when one is given.
RecordsOf(prefixes, service, region) ==
    { p \in Elems(prefixes) :
        /\ toUpperCase(p.service) = toUpperCase(service)
        /\ region # NoRegion => toUpperCase(p.region) = toUpperCase(region[1]) }

PrefixesOf(records) == { p.prefix : p \in records }

\* C7: getService matches the name case-insensitively; it returns the
\* prefixes of that service, of the given region only when one is given,
\* and NotFound exactly when no record of the service (in that region) exists.
C7_GetServiceReturnsTheServicesPrefixes ==
    Published =>
        \A service \in ServiceArgs, region \in RegionArgs :
            LET result == controllerGetServiceIpRanges(TheCache, service, region)
                v4 == RecordsOf(ipRangesData.prefixes, service, region)
                v6 == RecordsOf(ipRangesData.ipv6_prefixes, service, region)
            IN  IF v4 = {} /\ v6 = {} THEN result.status = "NotFound"
                ELSE /\ result.status = "ok"
                     /\ Elems(result.body.ipv4_prefixes) = PrefixesOf(v4)
                     /\ Elems(result.body.ipv6_prefixes) = PrefixesOf(v6)

\* The entry a getAllServices result is to hold under a key: the lists and
\* counts of `ranges`.
ServiceEntry(key, ranges) ==
    [key |-> key, ipv4_prefixes |-> ranges.ipv4_prefixes,
     ipv6_prefixes |-> ranges.ipv6_prefixes, count |-> ranges.count]

\* The CIDRs of one family under a key of a getAllServices result.
PrefixesUnder(all, key, family) ==
    UNION { IF all.body.services[j].key = key
            THEN Elems(IF family = "ipv4" THEN all.body.services[j].ipv4_prefixes
                       ELSE all.body.services[j].ipv6_prefixes)
            ELSE {} :
            j \in 1..Len(all.body.services) }

\* C8: getAllServices() without a region equals, key by key and family by
\* family, the union of getAllServices(r) over the regions listRegions gives.
C8_AllServicesIsUnionOverRegions ==
    Published =>
        LET all == controllerGetAllIpRanges(TheCache, NoRegion)
            regions == controllerGetRegions(TheCache).body.regions
        IN  \A i \in 1..Len(serviceIpRangesMap), family \in {"ipv4", "ipv6"} :
                PrefixesUnder(all, serviceIpRangesMap[i].service, family)
                = UNION { PrefixesUnder(controllerGetAllIpRanges(TheCache, <<r>>),
                                        serviceIpRangesMap[i].service, family) :
                          r \in Elems(regions) }

\* C9: given a region, getAllServices gives each key of the service index
\* what getService gives for that key and region: the key is in the map
\* exactly when getService finds the service there, with the same lists and
\* counts, never with both lists empty; and when one of the two fails, the
\* other fails the same way.
C9_AllServicesAppliesTheSameFilter ==
    \A region \in GivenRegions :
        LET all == controllerGetAllIpRanges(TheCache, region)
        IN  \A i \in 1..Len(serviceIpRangesMap) :
                LET key == serviceIpRangesMap[i].service
                    one == controllerGetServiceIpRanges(TheCache, key, region)
                    at == { j \in 1..Len(all.body.services) :
                              all.body.services[j].key = key }
                IN  IF all.status # "ok" THEN one.status = all.status
                    ELSE /\ one.status \in {"ok", "NotFound"}
                         /\ at # {} <=> one.status = "ok"
                         /\ \A j \in at :
                                /\ all.body.services[j] = ServiceEntry(key, one.body)
                                /\ \/ all.body.services[j].ipv4_prefixes # <<>>
                                   \/ all.body.services[j].ipv6_prefixes # <<>>

\* C10: every match searchByAddress returns, of service S, region R and
\* prefix p, is found again by getService(S, R): it is not NotFound and its
\* list of the address's family holds p.
C10_SearchAgreesWithGetService ==
    Published =>
        \A ip \in QueryIps :
            LET found == searchByIp(TheCache, ip)
            IN  found.status = "ok" =>
                    \A k \in 1..Len(found.body.matches) :
                        LET m == found.body.matches[k]
                            one == controllerGetServiceIpRanges(
                                       TheCache, m.service, <<m.region>>)
                        IN  /\ one.status = "ok"
                            /\ m.prefix \in
                                   Elems(IF includes(ip, <<58>>)
                                         THEN one.body.ipv6_prefixes
                                         ELSE one.body.ipv4_prefixes)

-----------------------------------------------------------------------------
(* Address arithmetic as section 4.1 of the specification defines it:     *)
(* literals are parsed strictly and compared as fixed-width bit strings.  *)

IsDecDigit(c) == c \in 48..57
IsHexDigit(c) == c \in 48..57 \/ c \in 97..102 \/ c \in 65..70

RECURSIVE ValueIn(_, _, _)
ValueIn(s, radix, acc) ==
    IF s = <<>> THEN acc
    ELSE ValueIn(Tail(s), radix, acc * radix + DigitValue(s[1]))

\* The low `width` bits of v, most significant first.
BitsOf(v, width) == [i \in 1..width |-> (v \div (2 ^ (width - i))) % 2]

RECURSIVE Concat(_)
Concat(seqs) == IF seqs = <<>> THEN <<>> ELSE Head(seqs) \o Concat(Tail(seqs))

ValidOctet(s) ==
    /\ Len(s) \in 1..3
    /\ \A i \in 1..Len(s) : IsDecDigit(s[i])
    /\ Len(s) > 1 => s[1] # 48
    /\ ValueIn(s, 10, 0) <= 255

ValidIPv4(s) ==
    LET parts == split(s, <<46>>)
    IN  Len(parts) = 4 /\ \A i \in 1..4 : ValidOctet(parts[i])

\* The 32 bits of a valid IPv4 literal.
Bits4(s) ==
    LET parts == split(s, <<46>>)
    IN  Concat([i \in 1..4 |-> BitsOf(ValueIn(parts[i], 10, 0), 8)])

ValidGroup(g) == Len(g) \in 1..4 /\ \A i \in 1..Len(g) : IsHexDigit(g[i])

GroupsOfSide(side) == IF side = <<>> THEN <<>> ELSE split(side, <<58>>)

\* The eight groups of an IPv6 literal whose zero run, if any, is expanded.
Groups6(s) ==
    IF includes(s, <<58, 58>>)
    THEN LET sides == split(s, <<58, 58>>)
             left == GroupsOfSide(sides[1])
             right == GroupsOfSide(sides[2])
         IN  left \o [i \in 1..(8 - Len(left) - Len(right)) |-> <<48>>] \o right
    ELSE split(s, <<58>>)

ValidIPv6(s) ==
    /\ includes(s, <<58>>)
    /\ IF includes(s, <<58, 58>>)
       THEN LET sides == split(s, <<58, 58>>)
            IN  /\ Len(sides) = 2
                /\ Len(GroupsOfSide(sides[1])) + Len(GroupsOfSide(sides[2])) <= 7
                /\ \A i \in 1..Len(GroupsOfSide(sides[1])) :
                       ValidGroup(GroupsOfSide(sides[1])[i])
                /\ \A i \in 1..Len(GroupsOfSide(sides[2])) :
                       ValidGroup(GroupsOfSide(sides[2])[i])
       ELSE LET groups == split(s, <<58>>)
            IN  Len(groups) = 8 /\ \A i \in 1..8 : ValidGroup(groups[i])

\* The 128 bits of a valid IPv6 literal.
Bits6(s) ==
    LET groups == Groups6(s)
    IN  Concat([i \in 1..8 |-> BitsOf(ValueIn(groups[i], 16, 0), 16)])

ValidAddress(s) == ValidIPv4(s) \/ ValidIPv6(s)

FamilyOf(s) == IF includes(s, <<58>>) THEN "ipv6" ELSE "ipv4"

AddressBits(s) == IF FamilyOf(s) = "ipv6" THEN Bits6(s) ELSE Bits4(s)

ValidLength(s, max) ==
    /\ Len(s) \in 1..3
    /\ \A i \in 1..Len(s) : IsDecDigit(s[i])
    /\ Len(s) > 1 => s[1] # 48
    /\ ValueIn(s, 10, 0) <= max

ValidCidr(s) ==
    LET parts == split(s, <<47>>)
    IN  /\ Len(parts) = 2
        /\ \/ ValidIPv4(parts[1]) /\ ValidLength(parts[2], 32)
           \/ ValidIPv6(parts[1]) /\ ValidLength(parts[2], 128)

PrefixLength(cidr) == ValueIn(split(cidr, <<47>>)[2], 10, 0)
BaseAddress(cidr) == split(cidr, <<47>>)[1]

\* The top n bits of two bit strings are the same.
SameTopBits(x, y, n) == \A i \in 1..n : x[i] = y[i]

\* contains(cidr, address) of section 4.1, false for anything malformed.
Contains(cidr, a) ==
    /\ ValidCidr(cidr)
    /\ ValidAddress(a)
    /\ FamilyOf(BaseAddress(cidr)) = FamilyOf(a)
    /\ SameTopBits(AddressBits(a), AddressBits(BaseAddress(cidr)),
                   PrefixLength(cidr))

-----------------------------------------------------------------------------
(* Properties of the address search. *)

\* The entries of both arrays of the cached value, in document order.
RecordsIn(data) ==
    (IF HasPrefixes(data) THEN data.prefixes ELSE <<>>)
    \o (IF HasIpv6(data) THEN data.ipv6_prefixes ELSE <<>>)

\* The matches section 4.4 asks for: one per record whose CIDR contains a.
RECURSIVE ContainingMatches(_, _)
ContainingMatches(records, a) ==
    IF records = <<>> THEN <<>>
    ELSE (IF Contains(Head(records).prefix, a)
          THEN <<Match(Head(records))>> ELSE <<>>)
         \o ContainingMatches(Tail(records), a)

\* C11: for a valid address, searchByAddress returns one match per record
\* of the loaded dataset whose CIDR is of the address's family and contains
\* it, and no other record; found is true iff there is a match; the order
\* is the document's, the same at every call.
C11_SearchReturnsExactlyTheContainingRecords ==
    isDataLoaded(TheCache) =>
        \A a \in ValidIps :
            LET result == searchByIp(TheCache, a)
            IN  /\ ValidAddress(a)
                /\ result.status = "ok"
                /\ result.body.matches
                       = ContainingMatches(RecordsIn(ipRangesData), a)
                /\ result.body.found <=> result.body.matches # <<>>

\* C13: searchByAddress with text that is no valid IPv4 or IPv6 literal
\* fails with MalformedAddress; it returns no match list, empty or not.
C13_MalformedAddressIsRejected ==
    isDataLoaded(TheCache) =>
        \A a \in MalformedIps :
            /\ ~ValidAddress(a)
            /\ searchByIp(TheCache, a).status = "MalformedAddress"

\* An entry the Dataset Parser of section 4.2 keeps: a well-formed CIDR
\* and a service and a region that are not empty.
WellFormedEntry(p) ==
    ValidCidr(p.prefix) /\ p.service # <<>> /\ p.region # <<>>

ValidOnly(data) ==
    [data EXCEPT !.prefixes = SelectSeq(@, WellFormedEntry),
                 !.ipv6_prefixes = SelectSeq(@, WellFormedEntry)]

\* C14: a fetched dataset with some malformed entries is published as the
\* snapshot of its valid entries: every query answers, and fails or not,
\* as it does on the dataset without the malformed entries.
C14_MalformedEntriesAreDropped ==
    Published =>
        SameAnswers(TheCache,
                    onResolved(EmptyCache, ValidOnly(ipRangesData),
                               lastUpdated[1]))

-----------------------------------------------------------------------------
(* Containment on its own: the cache holds a dataset of one record, whose *)
(* CIDR is any base address with any prefix length, and callers search    *)
(* for addresses that differ from the base in chosen bits.                *)

RECURSIVE BitsValue(_, _)
BitsValue(bits, acc) ==
    IF bits = <<>> THEN acc ELSE BitsValue(Tail(bits), 2 * acc + Head(bits))

RECURSIVE HexDigits(_)
HexDigits(v) ==
    LET d == v % 16
        c == IF d < 10 THEN 48 + d ELSE 87 + d
    IN  IF v < 16 THEN <<c>> ELSE HexDigits(v \div 16) \o <<c>>

\* The dotted-decimal text of 32 bits.
Text4(bits) ==
    join([i \in 1..4 |->
             DecimalDigits(BitsValue(SubSeq(bits, 8 * i - 7, 8 * i), 0))],
         <<46>>)

GroupValues(bits) ==
    [i \in 1..8 |-> BitsValue(SubSeq(bits, 16 * i - 15, 16 * i), 0)]

\* The text of 128 bits with all eight groups written out.
Text6Full(bits) ==
    join([i \in 1..8 |-> HexDigits(GroupValues(bits)[i])], <<58>>)

\* The text of 128 bits with the first run of zero groups written as "::".
Text6(bits) ==
    LET v == GroupValues(bits)
        zeros == { i \in 1..8 : v[i] = 0 }
    IN  IF zeros = {} THEN Text6Full(bits)
        ELSE LET first == CHOOSE i \in zeros : \A j \in zeros : i <= j
                 last == CHOOSE j \in first..8 :
                             /\ \A i \in first..j : v[i] = 0
                             /\ j = 8 \/ v[j + 1] # 0
             IN  join([i \in 1..(first - 1) |-> HexDigits(v[i])], <<58>>)
                 \o <<58, 58>>
                 \o join([i \in 1..(8 - last) |-> HexDigits(v[last + i])], <<58>>)

Octets(a, b, c, d) == BitsOf(a, 8) \o BitsOf(b, 8) \o BitsOf(c, 8) \o BitsOf(d, 8)

Groups(g) == Concat([i \in 1..8 |-> BitsOf(g[i], 16)])

\* Base addresses, host bits set: 1.2.4.128, 10.170.85.1, 255.255.255.255,
\* 2600:1f18:4abc::1, ::, ffff:ffff:ffff:ffff:ffff:ffff:ffff:ffff.
ProbeBases4 ==
    { Octets(1, 2, 4, 128), Octets(10, 170, 85, 1), Octets(255, 255, 255, 255) }

ProbeBases6 ==
    { Groups(<<9728, 7960, 19132, 0, 0, 0, 0, 1>>),
      Groups(<<0, 0, 0, 0, 0, 0, 0, 0>>),
      Groups(<<65535, 65535, 65535, 65535, 65535, 65535, 65535, 65535>>) }

ProbeLengths6 == {0, 1, 7, 8, 9, 15, 16, 17, 34, 63, 64, 65, 127, 128}

CidrText(bits, n) ==
    (IF Len(bits) = 32 THEN Text4(bits) ELSE Text6(bits))
    \o <<47>> \o DecimalDigits(n)

ProbeCidrs ==
    { CidrText(b, n) : b \in ProbeBases4, n \in 0..32 }
    \cup { CidrText(b, n) : b \in ProbeBases6, n \in ProbeLengths6 }

Flip(bits, k) == [bits EXCEPT ![k] = 1 - @]

\* The bits the probes change: every bit of an IPv4 address; of an IPv6
\* address the bits around the prefix length, the first, a middle one
\* and the last.
FlipPositions(n, width) ==
    IF width = 32 THEN 1..32
    ELSE {1, n - 1, n, n + 1, n + 2, 64, 128} \cap 1..128

AddressTexts(bits) ==
    IF Len(bits) = 32 THEN {Text4(bits)} ELSE {Text6(bits), Text6Full(bits)}

\* The base address, each address one bit away from it, and the base with
\* every host bit changed.
ProbeAddresses(cidr) ==
    LET b == AddressBits(BaseAddress(cidr))
        n == PrefixLength(cidr)
    IN  UNION { AddressTexts(x) :
                  x \in {b} \cup { Flip(b, k) : k \in FlipPositions(n, Len(b)) }
                        \cup { [i \in 1..Len(b) |->
                                  IF i > n THEN 1 - b[i] ELSE b[i]] } }

\* The dataset of one record.
DatasetOf(cidr) ==
    IF FamilyOf(cidr) = "ipv6"
    THEN Object(Token1, TRUE, <<>>, TRUE, <<Prefix(cidr, UsEast1, EC2)>>)
    ELSE Object(Token1, TRUE, <<Prefix(cidr, UsEast1, EC2)>>, FALSE, <<>>)

TheCidr == RecordsIn(ipRangesData)[1].prefix

ContainsInit ==
    /\ \E cidr \in ProbeCidrs :
           SetCacheTo(onResolved(EmptyCache, DatasetOf(cidr), 1))
    /\ lastSettled = "resolved-dataset"
    /\ repeated = FALSE
    /\ pending = 0
    /\ phase = "running"
    /\ reply = NoReply

ProbeSearch ==
    \E ip \in ProbeAddresses(TheCidr) :
        Answer("searchByIp", searchByIp(TheCache, ip))

ContainsNext ==
    \/ ProbeSearch
    \/ Respond

ContainsSpec == ContainsInit /\ [][ContainsNext]_vars

\* isIpv4InCidr or isIpv6InCidr, as searchByIp chooses between them.
InCidr(a, cidr) ==
    IF includes(a, <<58>>) THEN isIpv6InCidr(a, cidr) ELSE isIpv4InCidr(a, cidr)

\* C12: for a valid CIDR of prefix length n and a valid address of its
\* family, the containment test is true iff the top n bits of the address
\* equal the top n bits of the base address; changing a bit of the address
\* below the top n, or a host bit of the CIDR, does not change the result.
C12_ContainsComparesExactlyTheTopBits ==
    reply.op = "searchByIp" =>
        /\ reply.result.status = "ok"
        /\ LET a == reply.result.body.ip
               n == PrefixLength(TheCidr)
               base == AddressBits(BaseAddress(TheCidr))
               bits == AddressBits(a)
           IN  /\ ValidCidr(TheCidr) /\ ValidAddress(a)
               /\ reply.result.body.found = InCidr(a, TheCidr)
               /\ InCidr(a, TheCidr) = SameTopBits(bits, base, n)
               /\ \A k \in FlipPositions(n, Len(base)) :
                      k > n =>
                          /\ \A t \in AddressTexts(Flip(bits, k)) :
                                 InCidr(t, TheCidr) = InCidr(a, TheCidr)
                          /\ InCidr(a, CidrText(Flip(base, k), n))
                                 = InCidr(a, TheCidr)

\* A search has found an address that differs from the base address in the
\* host bits of a CIDR whose prefix length is no multiple of 8.
C12_Witness ==
    /\ reply.op = "searchByIp"
    /\ reply.result.status = "ok"
    /\ reply.result.body.found
    /\ PrefixLength(TheCidr) % 8 # 0
    /\ AddressBits(reply.result.body.ip) # AddressBits(BaseAddress(TheCidr))

-----------------------------------------------------------------------------
(* Properties of the refresh cycle. *)

\* C15: a refresh failure is never fatal and every refresh finishes: the
\* promise of fetchIpRanges is never rejected to onModuleInit or handleCron,
\* the startup refresh returns whether the fetch succeeds, fails or times
\* out, a pending request always settles, and a dataset that arrives after
\* a failure is cached and indexed like any other.
C15_RefreshAlwaysFinishes ==
    /\ [](phase # "crashed")
    /\ (phase = "initializing") ~> (phase = "running")
    /\ []<>(pending = 0) \/ []<><<FetchSettles>>_vars
    /\ [][FetchResolved /\ lastSettled' = "resolved-dataset" =>
             /\ isDataLoaded(TheCache')
             /\ serviceIpRangesMap' = groupByService(ipRangesData')
             /\ C3_IndexAndDatasetAgree']_vars

\* The startup refresh has failed and returned: the application runs, no
\* request is pending and nothing is loaded.
C15_Witness ==
    /\ lastSettled = "rejected"
    /\ phase = "running"
    /\ pending = 0
    /\ ipRangesData = Null

\* The cache with the time stamp left out.
WithoutLastUpdated(c) == [c EXCEPT !.lastUpdated = <<>>]

\* C16: a successful refresh fed the dataset that an earlier successful
\* refresh was fed leaves every query result as it was after the earlier
\* one, lastUpdated apart, whatever failed refreshes and queries came in
\* between: what a successful refresh leaves cached is what a first
\* refresh of that dataset leaves, and a refresh that delivers the dataset
\* already cached changes no query result.
C16_RepeatedRefreshIsIdempotent ==
    [][FetchResolved /\ lastSettled' = "resolved-dataset" =>
          /\ WithoutLastUpdated(TheCache')
                 = WithoutLastUpdated(onResolved(EmptyCache, ipRangesData', 1))
          /\ repeated' =>
                 SameAnswers(WithoutLastUpdated(TheCache'),
                             WithoutLastUpdated(TheCache))]_vars

\* A refresh has delivered the dataset that was already cached, a dataset
\* with services, at a later time.
C16_Witness ==
    /\ repeated
    /\ lastSettled = "resolved-dataset"
    /\ serviceIpRangesMap # <<>>
    /\ lastUpdated = <<MaxTime>>

-----------------------------------------------------------------------------
(* Properties of the queries as reads, and of the lists they return. *)

\* A step in which a query handler has run: a caller gets a result.
Query == reply.op = "none" /\ reply'.op # "none"

\* C17: every query is a pure read: whether it succeeds, returns NotFound
\* or fails, it leaves the cached dataset, the service index, syncToken,
\* lastUpdated and the loaded flag unchanged; only a refresh whose request
\* resolved changes them.
C17_QueriesArePureReads ==
    /\ [][Query =>
             /\ cache' = cache
             /\ syncTokenOf(ipRangesData') = syncTokenOf(ipRangesData)
             /\ isDataLoaded(TheCache') = isDataLoaded(TheCache)]_vars
    /\ [][cache' # cache =>
             /\ pending' = pending - 1
             /\ lastSettled' \in {"resolved-dataset", "resolved-unparsable"}]_vars

\* A getService on a loaded cache with services has returned NotFound.
C17_Witness ==
    /\ reply.op = "getServiceIpRanges"
    /\ reply.result.status = "NotFound"
    /\ serviceIpRangesMap # <<>>
    /\ lastUpdated # <<>>

\* C18: the service index and the lookup group service names the same way:
\* on every loaded dataset, each prefix getService(S, R) returns is in the
\* list of its family that getService(S) returns without a region.
C18_RegionResultIsPartOfServiceResult ==
    isDataLoaded(TheCache) =>
        \A service \in ServiceArgs, region \in GivenRegions :
            LET one == controllerGetServiceIpRanges(TheCache, service, region)
                all == controllerGetServiceIpRanges(TheCache, service, NoRegion)
            IN  one.status = "ok" =>
                    /\ all.status = "ok"
                    /\ Elems(one.body.ipv4_prefixes)
                           \subseteq Elems(all.body.ipv4_prefixes)
                    /\ Elems(one.body.ipv6_prefixes)
                           \subseteq Elems(all.body.ipv6_prefixes)

NoDuplicates(seq) == \A i, j \in 1..Len(seq) : seq[i] = seq[j] => i = j

\* A returned value lists no CIDR twice and counts what it lists.
DeDuplicated(ranges) ==
    /\ NoDuplicates(ranges.ipv4_prefixes)
    /\ NoDuplicates(ranges.ipv6_prefixes)
    /\ ranges.count.ipv4 = Len(ranges.ipv4_prefixes)
    /\ ranges.count.ipv6 = Len(ranges.ipv6_prefixes)

\* C19: every prefix list getService or getAllServices returns, with or
\* without a region, lists no CIDR twice, also when the dataset repeats a
\* record, and count.ipv4 and count.ipv6 are the lengths of the lists.
C19_ReturnedListsAreDeDuplicated ==
    isDataLoaded(TheCache) =>
        \A region \in RegionArgs :
            /\ \A service \in ServiceArgs :
                   LET one == controllerGetServiceIpRanges(TheCache, service, region)
                   IN  one.status = "ok" => DeDuplicated(one.body)
            /\ LET all == controllerGetAllIpRanges(TheCache, region)
               IN  all.status = "ok" =>
                       \A j \in 1..Len(all.body.services) :
                           DeDuplicated(all.body.services[j])

====
